---- MODULE Spec2Model ----
(***************************************************************************)
(* A model of the NFT type script of nervos-ckb-nft                        *)
(* (contracts/nft/src/main.rs): one validation run of `main` over one      *)
(* transaction.  The ledger data the script reads through syscalls (script *)
(* args, lock hashes, cell data, output type hashes, the seed outpoint,    *)
(* the token logic cell deps) is chosen when the code loads it.            *)
(***************************************************************************)
EXTENDS Integers, Sequences, FiniteSets, TLC

(***************************************************************************)
(* Bounds of the model.                                                    *)
(***************************************************************************)
\* Largest number of cells of the script group (group inputs plus group outputs).
MaxGroupCells == 3
\* Width in bits of the quantity accumulator (u128 in the code, scaled down).
QuantityBits == 2
\* Number of outputs of the transaction (raw output indexes are 0..MaxTxOutputs-1).
MaxTxOutputs == 2

(***************************************************************************)
(* Program constants (main.rs lines 36-45).                                *)
(***************************************************************************)
BLAKE2B256_HASH_LEN == 32
U128_LEN == 16
INSTANCE_ID_LEN == BLAKE2B256_HASH_LEN
LOCK_HASH_LEN == BLAKE2B256_HASH_LEN
QUANTITY_LEN == U128_LEN
TOKEN_LOGIC_LEN == BLAKE2B256_HASH_LEN
ARGS_LEN == LOCK_HASH_LEN

\* n copies of byte b.
Fill(n, b) == [i \in 1..n |-> b]

CODE_HASH_NULL == Fill(32, 0)

\* 2^n
RECURSIVE Pow2(_)
Pow2(n) == IF n = 0 THEN 1 ELSE 2 * Pow2(n - 1)

\* One more than the largest value of the quantity type (2^128 in the code).
QuantityModulus == Pow2(QuantityBits)

(***************************************************************************)
(* Option<T>: None is the empty sequence, Some(x) the one-element sequence.*)
(***************************************************************************)
None == << >>
Some(x) == << x >>
is_some(o) == Len(o) = 1
is_none(o) == Len(o) = 0
unwrap(o) == o[1]
unwrap_or(o, d) == IF is_some(o) THEN o[1] ELSE d

(***************************************************************************)
(* Error (main.rs 61-83) and program_entry's `err as i8` (main.rs 51-59).  *)
(***************************************************************************)
ErrorCode(err) ==
    CASE err = "IndexOutOfBound" -> 1
      [] err = "ItemMissing" -> 2
      [] err = "LengthNotEnough" -> 3
      [] err = "Encoding" -> 4
      [] err = "InvalidArgsLen" -> 100
      [] err = "InvalidInstanceId" -> 101
      [] err = "InvalidInstanceIdLength" -> 102
      [] err = "InvalidQuantity" -> 103
      [] err = "InvalidQuantityLength" -> 104
      [] err = "InvalidStructure" -> 105
      [] err = "InvalidTokenLogicCellDep" -> 106
      [] err = "InvalidTokenLogicLength" -> 107
      [] err = "MissingTokenLogicCellDep" -> 108
      [] err = "MissingTokenLogicFunction" -> 109
      [] err = "UnauthorizedOperation" -> 110
      [] err = "UnexpectedCellMismatch" -> 111

\* The variants of Error.
ErrorKinds ==
    { "IndexOutOfBound", "ItemMissing", "LengthNotEnough", "Encoding",
      "InvalidArgsLen", "InvalidInstanceId", "InvalidInstanceIdLength",
      "InvalidQuantity", "InvalidQuantityLength", "InvalidStructure",
      "InvalidTokenLogicCellDep", "InvalidTokenLogicLength",
      "MissingTokenLogicCellDep", "MissingTokenLogicFunction",
      "UnauthorizedOperation", "UnexpectedCellMismatch" }

\* Exit status of a run that panics (panic!, an arithmetic overflow check).
PANIC_EXIT_CODE == -1

(***************************************************************************)
(* Little-endian integers.                                                 *)
(***************************************************************************)
\* u128::from_le_bytes (main.rs 376).
RECURSIVE from_le_bytes(_)
from_le_bytes(buf) ==
    IF Len(buf) = 0 THEN 0 ELSE buf[1] + 256 * from_le_bytes(Tail(buf))

\* to_le_bytes of an n-byte unsigned integer (main.rs 155, tests.rs 212).
RECURSIVE to_le_bytes(_, _)
to_le_bytes(v, n) ==
    IF n = 0 THEN << >> ELSE << v % 256 >> \o to_le_bytes(v \div 256, n - 1)

(***************************************************************************)
(* parse_nft_data (main.rs 352-412).  Results are [ok, err, data].         *)
(***************************************************************************)
NftData(instance_id, quantity, token_logic, custom) ==
    [instance_id |-> instance_id, quantity |-> quantity,
     token_logic |-> token_logic, custom |-> custom]

Ok(v) == [ok |-> TRUE, err |-> "", data |-> v]
Err(e) == [ok |-> FALSE, err |-> e, data |-> << >>]

\* parse_nft_data with `<=` for `<` in the length checks of the quantity and
\* the token logic (lines 368 and 383).
parse_nft_data_inclusive_bounds(cell_data) ==
    LET cell_data_len == Len(cell_data)
        q_end == INSTANCE_ID_LEN + QUANTITY_LEN
        t_end == INSTANCE_ID_LEN + QUANTITY_LEN + TOKEN_LOGIC_LEN
    IN  IF cell_data_len < INSTANCE_ID_LEN THEN Err("InvalidInstanceIdLength")
        ELSE IF cell_data_len > INSTANCE_ID_LEN /\ cell_data_len <= q_end
             THEN Err("InvalidQuantityLength")
        ELSE IF cell_data_len > q_end /\ cell_data_len <= t_end
             THEN Err("InvalidTokenLogicLength")
        ELSE Ok(NftData(
                SubSeq(cell_data, 1, INSTANCE_ID_LEN),
                IF cell_data_len > INSTANCE_ID_LEN
                    THEN Some(from_le_bytes(SubSeq(cell_data, INSTANCE_ID_LEN + 1, q_end)))
                    ELSE None,
                IF cell_data_len > q_end
                    THEN Some(SubSeq(cell_data, q_end + 1, t_end))
                    ELSE None,
                IF cell_data_len > t_end
                    THEN Some(SubSeq(cell_data, t_end + 1, cell_data_len))
                    ELSE None))

\* parse_nft_data reading the quantity one byte early (start of line 373).
parse_nft_data_quantity_off_by_one(cell_data) ==
    LET cell_data_len == Len(cell_data)
        q_end == INSTANCE_ID_LEN + QUANTITY_LEN
        t_end == INSTANCE_ID_LEN + QUANTITY_LEN + TOKEN_LOGIC_LEN
    IN  IF cell_data_len < INSTANCE_ID_LEN THEN Err("InvalidInstanceIdLength")
        ELSE IF cell_data_len > INSTANCE_ID_LEN /\ cell_data_len < q_end
             THEN Err("InvalidQuantityLength")
        ELSE IF cell_data_len > q_end /\ cell_data_len < t_end
             THEN Err("InvalidTokenLogicLength")
        ELSE Ok(NftData(
                SubSeq(cell_data, 1, INSTANCE_ID_LEN),
                IF cell_data_len > INSTANCE_ID_LEN
                    THEN Some(from_le_bytes(SubSeq(cell_data, INSTANCE_ID_LEN + 2, q_end)))
                    ELSE None,
                IF cell_data_len > q_end
                    THEN Some(SubSeq(cell_data, q_end + 1, t_end))
                    ELSE None,
                IF cell_data_len > t_end
                    THEN Some(SubSeq(cell_data, t_end + 1, cell_data_len))
                    ELSE None))

\* parse_nft_data without the check of the token logic length: a payload
\* cut inside the token logic gives a record with the bytes there are.
parse_nft_data_partial_token_logic(cell_data) ==
    LET cell_data_len == Len(cell_data)
        q_end == INSTANCE_ID_LEN + QUANTITY_LEN
        t_end == INSTANCE_ID_LEN + QUANTITY_LEN + TOKEN_LOGIC_LEN
    IN  IF cell_data_len < INSTANCE_ID_LEN THEN Err("InvalidInstanceIdLength")
        ELSE IF cell_data_len > INSTANCE_ID_LEN /\ cell_data_len < q_end
             THEN Err("InvalidQuantityLength")
        ELSE Ok(NftData(
                SubSeq(cell_data, 1, INSTANCE_ID_LEN),
                IF cell_data_len > INSTANCE_ID_LEN
                    THEN Some(from_le_bytes(SubSeq(cell_data, INSTANCE_ID_LEN + 1, q_end)))
                    ELSE None,
                IF cell_data_len > q_end
                    THEN Some(SubSeq(cell_data, q_end + 1,
                                     IF cell_data_len < t_end THEN cell_data_len ELSE t_end))
                    ELSE None,
                IF cell_data_len > t_end
                    THEN Some(SubSeq(cell_data, t_end + 1, cell_data_len))
                    ELSE None))

parse_nft_data(cell_data) ==
    LET cell_data_len == Len(cell_data)
        q_end == INSTANCE_ID_LEN + QUANTITY_LEN
        t_end == INSTANCE_ID_LEN + QUANTITY_LEN + TOKEN_LOGIC_LEN
    IN  IF cell_data_len < INSTANCE_ID_LEN THEN Err("InvalidInstanceIdLength")
        ELSE IF cell_data_len > INSTANCE_ID_LEN /\ cell_data_len < q_end
             THEN Err("InvalidQuantityLength")
        ELSE IF cell_data_len > q_end /\ cell_data_len < t_end
             THEN Err("InvalidTokenLogicLength")
        ELSE Ok(NftData(
                SubSeq(cell_data, 1, INSTANCE_ID_LEN),
                IF cell_data_len > INSTANCE_ID_LEN
                    THEN Some(from_le_bytes(SubSeq(cell_data, INSTANCE_ID_LEN + 1, q_end)))
                    ELSE None,
                IF cell_data_len > q_end
                    THEN Some(SubSeq(cell_data, q_end + 1, t_end))
                    ELSE None,
                IF cell_data_len > t_end
                    THEN Some(SubSeq(cell_data, t_end + 1, cell_data_len))
                    ELSE None))

(***************************************************************************)
(* validate_nft_data (main.rs 415-444).                                    *)
(***************************************************************************)
\* validate_nft_data letting a custom through without a token logic.
validate_nft_data_custom_without_token_logic(nft_data) ==
    IF Len(nft_data.instance_id) # INSTANCE_ID_LEN
        THEN Err("InvalidInstanceIdLength")
    ELSE IF is_some(nft_data.token_logic)
            /\ (is_none(nft_data.quantity)
                \/ Len(unwrap(nft_data.token_logic)) # TOKEN_LOGIC_LEN)
        THEN Err("InvalidStructure")
    ELSE IF is_some(nft_data.custom)
            /\ is_none(nft_data.quantity)
        THEN Err("InvalidStructure")
    ELSE Ok(nft_data)

validate_nft_data(nft_data) ==
    IF Len(nft_data.instance_id) # INSTANCE_ID_LEN
        THEN Err("InvalidInstanceIdLength")
    ELSE IF is_some(nft_data.token_logic)
            /\ (is_none(nft_data.quantity)
                \/ Len(unwrap(nft_data.token_logic)) # TOKEN_LOGIC_LEN)
        THEN Err("InvalidStructure")
    ELSE IF is_some(nft_data.custom)
            /\ (is_none(nft_data.quantity) \/ is_none(nft_data.token_logic))
        THEN Err("InvalidStructure")
    ELSE Ok(nft_data)

(***************************************************************************)
(* collect_nft_data (main.rs 240-253): parse and validate every cell of    *)
(* the source in order; the first error ends the collection.               *)
(***************************************************************************)
parse_and_validate_nft_data(x) ==
    LET parsed == parse_nft_data(x)
    IN  IF ~parsed.ok THEN parsed ELSE validate_nft_data(parsed.data)

RECURSIVE collect_nft_data(_)
collect_nft_data(cells) ==
    IF Len(cells) = 0 THEN Ok(<< >>)
    ELSE LET first == parse_and_validate_nft_data(Head(cells))
         IN  IF ~first.ok THEN first
             ELSE LET rest == collect_nft_data(Tail(cells))
                  IN  IF ~rest.ok THEN rest
                      ELSE Ok(<< first.data >> \o rest.data)

(***************************************************************************)
(* NftDataResolved::from (main.rs 134-146).                                *)
(***************************************************************************)
\* NftDataResolved with 0 as the default of the quantity.
NftDataResolvedQuantityDefaultZero(nft_data) ==
    [instance_id |-> nft_data.instance_id,
     quantity |-> unwrap_or(nft_data.quantity, 0),
     token_logic |-> unwrap_or(nft_data.token_logic, CODE_HASH_NULL),
     custom |-> unwrap_or(nft_data.custom, << >>)]

NftDataResolved(nft_data) ==
    [instance_id |-> nft_data.instance_id,
     quantity |-> unwrap_or(nft_data.quantity, 1),
     token_logic |-> unwrap_or(nft_data.token_logic, CODE_HASH_NULL),
     custom |-> unwrap_or(nft_data.custom, << >>)]

(***************************************************************************)
(* calculate_instance_id (main.rs 149-165).  Blake2b-256 is modelled by a  *)
(* digest that mixes every input byte and is collision free on the         *)
(* outpoints and indexes of the model.  `output_index as u32` keeps every  *)
(* index a transaction can hold.                                           *)
(***************************************************************************)
Blake2b256(data) ==
    [i \in 1..BLAKE2B256_HASH_LEN |->
        (data[i] + 31 * data[Len(data) - BLAKE2B256_HASH_LEN + i] + 99) % 256]

calculate_instance_id(seed_cell_outpoint, output_index) ==
    Blake2b256(seed_cell_outpoint.tx_hash
               \o to_le_bytes(seed_cell_outpoint.index, 4)
               \o to_le_bytes(output_index, 4))

(***************************************************************************)
(* check_owner_mode (main.rs 103-112).                                     *)
(***************************************************************************)
\* check_owner_mode comparing the whole of the args with each lock hash.
check_owner_mode_whole_args(script_args, lock_hashes) ==
    \E i \in 1..Len(lock_hashes) :
        script_args = lock_hashes[i]

check_owner_mode(script_args, lock_hashes) ==
    \E i \in 1..Len(lock_hashes) :
        SubSeq(script_args, 1, LOCK_HASH_LEN) = lock_hashes[i]

\* collect_nft_indexes returning, for each matching output, its ordinal among
\* the matching outputs in place of its index among all the outputs.
RECURSIVE collect_nft_ordinals_from(_, _, _, _)
collect_nft_ordinals_from(script_hash, type_hashes, index, ordinal) ==
    IF index >= Len(type_hashes) THEN << >>
    ELSE IF type_hashes[index + 1] = Some(script_hash)
        THEN << ordinal >>
             \o collect_nft_ordinals_from(script_hash, type_hashes, index + 1, ordinal + 1)
    ELSE collect_nft_ordinals_from(script_hash, type_hashes, index + 1, ordinal)

collect_nft_ordinals(script_hash, type_hashes) ==
    collect_nft_ordinals_from(script_hash, type_hashes, 0, 0)

(***************************************************************************)
(* collect_nft_indexes (main.rs 168-195): the indexes (from 0) of the      *)
(* transaction outputs whose type script hash is script_hash.              *)
(***************************************************************************)
RECURSIVE collect_nft_indexes_from(_, _, _)
collect_nft_indexes_from(script_hash, type_hashes, index) ==
    IF index >= Len(type_hashes) THEN << >>
    ELSE (IF type_hashes[index + 1] = Some(script_hash) THEN << index >> ELSE << >>)
         \o collect_nft_indexes_from(script_hash, type_hashes, index + 1)

collect_nft_indexes(script_hash, type_hashes) ==
    collect_nft_indexes_from(script_hash, type_hashes, 0)

(***************************************************************************)
(* collect_unique_instance_ids (main.rs 198-211).                          *)
(***************************************************************************)
collect_unique_instance_ids(nft_datas) ==
    { SubSeq(nft_datas[i].instance_id, 1,
             IF Len(nft_datas[i].instance_id) < TOKEN_LOGIC_LEN
                 THEN Len(nft_datas[i].instance_id) ELSE TOKEN_LOGIC_LEN) :
        i \in 1..Len(nft_datas) }

(***************************************************************************)
(* collect_nft_quantity (main.rs 256-276).  `quantity += ...` on a u128:   *)
(* value is the sum in the accumulator's width, overflow tells whether an  *)
(* addition went past its largest value.                                   *)
(***************************************************************************)
checked_add(acc, q) ==
    [value |-> (acc.value + q) % QuantityModulus,
     overflow |-> acc.overflow \/ acc.value + q >= QuantityModulus]

RECURSIVE collect_nft_quantity_from(_, _, _, _)
collect_nft_quantity_from(acc, instance_id, token_logic, nft_datas) ==
    IF Len(nft_datas) = 0 THEN acc
    ELSE LET nft_data == NftDataResolved(Head(nft_datas))
             counted == /\ nft_data.instance_id = instance_id
                        /\ (is_none(token_logic)
                            \/ nft_data.token_logic = unwrap_or(token_logic, << >>))
         IN  collect_nft_quantity_from(
                 IF counted THEN checked_add(acc, nft_data.quantity) ELSE acc,
                 instance_id, token_logic, Tail(nft_datas))

collect_nft_quantity(instance_id, token_logic, nft_datas) ==
    collect_nft_quantity_from([value |-> 0, overflow |-> FALSE],
                              instance_id, token_logic, nft_datas)

(***************************************************************************)
(* collect_nft_quantities (main.rs 279-289).                               *)
(***************************************************************************)
collect_nft_quantities(nft_data, group_input, group_output, consider_token_logic) ==
    LET resolved == NftDataResolved(nft_data)
        token_logic == IF consider_token_logic THEN Some(resolved.token_logic) ELSE None
    IN  [input |-> collect_nft_quantity(resolved.instance_id, token_logic, group_input),
         output |-> collect_nft_quantity(resolved.instance_id, token_logic, group_output)]

(***************************************************************************)
(* count_nft_data_modifications (main.rs 292-308).                         *)
(***************************************************************************)
count_nft_data_modifications(nft_data, group_nft_data) ==
    LET output_nft_data == NftDataResolved(nft_data)
    IN  Cardinality({ i \in 1..Len(group_nft_data) :
            LET input_nft_data == NftDataResolved(group_nft_data[i])
            IN  /\ output_nft_data.instance_id = input_nft_data.instance_id
                /\ output_nft_data.token_logic = input_nft_data.token_logic
                /\ output_nft_data.custom # input_nft_data.custom })

(***************************************************************************)
(* Order of a BTreeSet<Vec<u8>>: lexicographic on the bytes.               *)
(***************************************************************************)
RECURSIVE LexLess(_, _)
LexLess(a, b) ==
    IF Len(a) = 0 THEN Len(b) > 0
    ELSE IF Len(b) = 0 THEN FALSE
    ELSE IF a[1] # b[1] THEN a[1] < b[1]
    ELSE LexLess(Tail(a), Tail(b))

\* The first element of a non-empty set in iteration order.
BTreeFirst(S) == CHOOSE x \in S : \A y \in S \ {x} : LexLess(x, y)

(***************************************************************************)
(* program_entry (main.rs 51-59): the exit status of a run whose `main`    *)
(* ended with `outcome` ("Ok", an Error, or "Panic").                      *)
(***************************************************************************)
\* program_entry returning 0 whatever Error main ended with.
program_entry_ignoring_error(outcome) ==
    IF outcome = "Ok" THEN 0
    ELSE IF outcome = "Panic" THEN PANIC_EXIT_CODE
    ELSE 0

program_entry(outcome) ==
    IF outcome = "Ok" THEN 0
    ELSE IF outcome = "Panic" THEN PANIC_EXIT_CODE
    ELSE ErrorCode(outcome)

(***************************************************************************)
(* The transactions explored.  Byte strings stand for the hashes of the    *)
(* ledger; the cell data are the serializations, as the tests build them,  *)
(* of records over small sets of field values, and three truncated         *)
(* payloads.                                                               *)
(***************************************************************************)
ID_X == Fill(INSTANCE_ID_LEN, 1)
ID_Y == Fill(INSTANCE_ID_LEN, 2)
TOKEN_LOGIC_1 == Fill(TOKEN_LOGIC_LEN, 161)
TOKEN_LOGIC_2 == Fill(TOKEN_LOGIC_LEN, 162)
CUSTOM_A == << 65 >>
LOCK_GOVERNANCE == Fill(LOCK_HASH_LEN, 81)
LOCK_OTHER == Fill(LOCK_HASH_LEN, 82)
SCRIPT_HASH == Fill(BLAKE2B256_HASH_LEN, 33)
OTHER_SCRIPT_HASH == Fill(BLAKE2B256_HASH_LEN, 34)
SEED_OUTPOINT == [tx_hash |-> Fill(BLAKE2B256_HASH_LEN, 7), index |-> 0]

\* create_output_nft_cell's data (tests.rs 204-219).
serialize(nft_data) ==
    nft_data.instance_id
    \o (IF is_some(nft_data.quantity)
            THEN to_le_bytes(unwrap(nft_data.quantity), QUANTITY_LEN) ELSE << >>)
    \o (IF is_some(nft_data.token_logic) THEN unwrap(nft_data.token_logic) ELSE << >>)
    \o (IF is_some(nft_data.custom) THEN unwrap(nft_data.custom) ELSE << >>)

\* Records with a prefix of the optional fields present.
Records(ids, quantities, token_logics, customs) ==
    { NftData(id, None, None, None) : id \in ids }
    \cup { NftData(id, Some(q), None, None) : id \in ids, q \in quantities }
    \cup { NftData(id, Some(q), Some(t), None) :
              id \in ids, q \in quantities, t \in token_logics }
    \cup { NftData(x[1], Some(x[2]), Some(x[3]), Some(x[4])) :
              x \in ids \X quantities \X token_logics \X customs }

\* Payloads cut inside the instance id, the quantity and the token logic.
TruncatedPayloads ==
    { Fill(INSTANCE_ID_LEN - 1, 1),
      ID_X \o Fill(QUANTITY_LEN - 1, 0),
      ID_X \o to_le_bytes(1, QUANTITY_LEN) \o Fill(TOKEN_LOGIC_LEN - 1, 161) }

\* Ids a generated output may carry: the ids derived for each output index.
DerivedIds == { calculate_instance_id(SEED_OUTPOINT, k) : k \in 0..(MaxTxOutputs - 1) }

\* The two families of transactions: "quantity" varies ids and quantities,
\* "logic" varies token logic and custom data.
Families == { "quantity", "logic" }

AllQuantities == { 0, 1, QuantityModulus - 1 }

InputPayloads(f) ==
    TruncatedPayloads \cup
    { serialize(r) : r \in
        IF f = "quantity"
            THEN Records({ID_X, ID_Y}, AllQuantities, {TOKEN_LOGIC_1}, {})
            ELSE Records({ID_X}, {0, 1},
                         {CODE_HASH_NULL, TOKEN_LOGIC_1, TOKEN_LOGIC_2}, {CUSTOM_A}) }

OutputPayloads(f) ==
    TruncatedPayloads \cup
    { serialize(r) : r \in
        IF f = "quantity"
            THEN Records({ID_X, ID_Y} \cup DerivedIds, AllQuantities, {TOKEN_LOGIC_1}, {})
            ELSE Records({ID_X, calculate_instance_id(SEED_OUTPOINT, 0)}, {0, 1},
                         {CODE_HASH_NULL, TOKEN_LOGIC_1, TOKEN_LOGIC_2}, {CUSTOM_A}) }

\* Sequences over S of length at most n.
RECURSIVE SeqsUpTo(_, _)
SeqsUpTo(S, n) ==
    IF n = 0 THEN { << >> }
    ELSE LET shorter == SeqsUpTo(S, n - 1)
         IN  shorter \cup { Append(s, x) : s \in { t \in shorter : Len(t) = n - 1 }, x \in S }

Min(a, b) == IF a < b THEN a ELSE b

\* Type script hashes of the transaction's outputs (None: no type script).
OutputTypeHashes == { Some(SCRIPT_HASH), Some(OTHER_SCRIPT_HASH), None }
TxOutputLayouts == SeqsUpTo(OutputTypeHashes, MaxTxOutputs)

\* script.args() of the running script.
ScriptArgsChoices == { Fill(ARGS_LEN - 1, 81), LOCK_GOVERNANCE }
\* Lock hashes of the transaction's inputs.
LockHashChoices == { << LOCK_OTHER >>, << LOCK_GOVERNANCE >> }

\* The values a token_logic function returns: accept, and two rejections.
TokenLogicReturnCodes == { 0, 5, -1 }

\* What CKBDLContext::load and Library::get find for a code hash.
CellDepStates == { "missing", "no_function", "loadable" }

(***************************************************************************)
(* validate_token_logic (main.rs 332-349) and execute_token_logic          *)
(* (main.rs 311-329), given what loading the cell dep finds and, for the   *)
(* call, what token_logic returns.                                         *)
(***************************************************************************)
\* validate_token_logic accepting a code hash whatever loading it finds.
validate_token_logic_unchecked(token_logic_code_hash, dep) ==
    IF Len(token_logic_code_hash) # TOKEN_LOGIC_LEN THEN Err("Panic")
    ELSE Ok(<< >>)

\* validate_token_logic without the exemption of the null hash (line 337).
validate_token_logic_without_null_exemption(token_logic_code_hash, dep) ==
    IF Len(token_logic_code_hash) # TOKEN_LOGIC_LEN THEN Err("Panic")
    ELSE IF dep = "missing" THEN Err("MissingTokenLogicCellDep")
    ELSE IF dep = "no_function" THEN Err("MissingTokenLogicFunction")
    ELSE Ok(<< >>)

validate_token_logic(token_logic_code_hash, dep) ==
    IF Len(token_logic_code_hash) # TOKEN_LOGIC_LEN THEN Err("Panic")
    ELSE IF token_logic_code_hash # CODE_HASH_NULL /\ dep = "missing"
        THEN Err("MissingTokenLogicCellDep")
    ELSE IF token_logic_code_hash # CODE_HASH_NULL /\ dep = "no_function"
        THEN Err("MissingTokenLogicFunction")
    ELSE Ok(<< >>)

execute_token_logic(token_logic_code_hash, dep, token_logic_return_code) ==
    IF Len(token_logic_code_hash) # TOKEN_LOGIC_LEN THEN Err("Panic")
    ELSE IF dep = "missing" THEN Err("MissingTokenLogicCellDep")
    ELSE IF dep = "no_function" THEN Err("MissingTokenLogicFunction")
    ELSE IF token_logic_return_code # 0 THEN Err("Panic")
    ELSE Ok(<< >>)

\* Whether validate_token_logic loads the cell dep of the hash.
validate_loads(token_logic_code_hash) ==
    Len(token_logic_code_hash) = TOKEN_LOGIC_LEN /\ token_logic_code_hash # CODE_HASH_NULL

(***************************************************************************)
(* State of one run.                                                       *)
(***************************************************************************)
VARIABLES
    cell_data,              \* codec: the cell data under parse_nft_data
    record,                 \* codec: the record serialized into cell_data, if any
    parsed,                 \* codec: what parse_nft_data returned
    verdict,                \* codec: what validate_nft_data returned
    family,                 \* the family of transactions the run's cells come from
    pc,                     \* position in main
    script_args,            \* load_script().args()
    input_lock_hashes,      \* lock hashes of the transaction's inputs
    owner_mode,
    group_input_nft_data,
    group_output_nft_data,
    output_type_hashes,     \* type script hash of each transaction output
    output_nft_indexes,
    seed_cell_outpoint,
    index,                  \* group outputs classified so far
    token_logic_code_hashes_execute,
    token_logic_code_hashes_validate,
    validated,              \* hashes the validate loop (557-560) has passed
    invoked,                \* token_logic calls made: [hash, return_code], in order
    cell_deps,              \* what loading found, per code hash loaded so far
    overflow_wraps,         \* an addition overflowed and wrapped (no overflow checks)
    result,                 \* "Running", then main's outcome
    exit_code               \* program_entry's return value

run_vars == << family, pc, script_args, input_lock_hashes, owner_mode,
              group_input_nft_data, group_output_nft_data, output_type_hashes,
              output_nft_indexes, seed_cell_outpoint, index,
              token_logic_code_hashes_execute, token_logic_code_hashes_validate,
              validated, invoked, cell_deps, overflow_wraps, result, exit_code >>

codec_vars == << cell_data, record, parsed, verdict >>

vars == << run_vars, codec_vars >>

NoCellDeps == [h \in {} |-> "missing"]

\* The value of parsed and verdict before the function has run.
NotRun == [ok |-> FALSE, err |-> "NotRun", data |-> << >>]

\* No codec function has run.
CodecIdle ==
    /\ cell_data = << >>
    /\ record = None
    /\ parsed = NotRun
    /\ verdict = NotRun

\* Nothing of the transaction has been loaded.
RunIdle ==
    /\ script_args = << >>
    /\ input_lock_hashes = << >>
    /\ owner_mode = FALSE
    /\ group_input_nft_data = << >>
    /\ group_output_nft_data = << >>
    /\ output_type_hashes = << >>
    /\ output_nft_indexes = << >>
    /\ seed_cell_outpoint = SEED_OUTPOINT
    /\ index = 0
    /\ token_logic_code_hashes_execute = {}
    /\ token_logic_code_hashes_validate = {}
    /\ validated = {}
    /\ invoked = << >>
    /\ cell_deps = NoCellDeps
    /\ overflow_wraps = FALSE
    /\ result = "Running"
    /\ exit_code = 0

Init ==
    /\ CodecIdle
    /\ family \in Families
    /\ pc = "start"
    /\ RunIdle

\* main returns `outcome` and program_entry turns it into the exit status.
Finish(outcome) ==
    /\ pc' = "exit"
    /\ result' = outcome
    /\ exit_code' = program_entry(outcome)

Continue(next_pc) ==
    /\ pc' = next_pc
    /\ UNCHANGED << result, exit_code >>

\* Loading code hash h finds dep: the same as any earlier load of h.
Loads(h, dep) == h \in DOMAIN cell_deps => cell_deps[h] = dep
Loaded(h, dep) == [x \in DOMAIN cell_deps \cup {h} |-> IF x = h THEN dep ELSE cell_deps[x]]

group_input_instance_ids == collect_unique_instance_ids(group_input_nft_data)

(***************************************************************************)
(* main, lines 449-459: the args length check and check_owner_mode.        *)
(***************************************************************************)
\* LoadScriptWith rejecting args of exactly ARGS_LEN bytes as well.
LoadScriptWithInclusiveBound(args_choices, lock_hash_choices) ==
    /\ pc = "start"
    /\ \E args \in args_choices, lock_hashes \in lock_hash_choices :
        /\ script_args' = args
        /\ IF Len(args) <= ARGS_LEN
              THEN /\ Finish("InvalidArgsLen")
                   /\ UNCHANGED << input_lock_hashes, owner_mode >>
              ELSE /\ input_lock_hashes' = lock_hashes
                   /\ owner_mode' = check_owner_mode(args, lock_hashes)
                   /\ Continue("collect_input")
    /\ UNCHANGED << codec_vars, family, group_input_nft_data, group_output_nft_data,
                    output_type_hashes, output_nft_indexes, seed_cell_outpoint, index,
                    token_logic_code_hashes_execute, token_logic_code_hashes_validate,
                    validated, invoked, cell_deps, overflow_wraps >>

LoadScriptWith(args_choices, lock_hash_choices) ==
    /\ pc = "start"
    /\ \E args \in args_choices, lock_hashes \in lock_hash_choices :
        /\ script_args' = args
        /\ IF Len(args) < ARGS_LEN
              THEN /\ Finish("InvalidArgsLen")
                   /\ UNCHANGED << input_lock_hashes, owner_mode >>
              ELSE /\ input_lock_hashes' = lock_hashes
                   /\ owner_mode' = check_owner_mode(args, lock_hashes)
                   /\ Continue("collect_input")
    /\ UNCHANGED << codec_vars, family, group_input_nft_data, group_output_nft_data,
                    output_type_hashes, output_nft_indexes, seed_cell_outpoint, index,
                    token_logic_code_hashes_execute, token_logic_code_hashes_validate,
                    validated, invoked, cell_deps, overflow_wraps >>

LoadScript == LoadScriptWith(ScriptArgsChoices, LockHashChoices)

(***************************************************************************)
(* main, line 469: collect_nft_data(Source::GroupInput).                   *)
(***************************************************************************)
CollectGroupInputFrom(payloads, max_cells) ==
    /\ pc = "collect_input"
    /\ \E cells \in SeqsUpTo(payloads, max_cells) :
        LET collected == collect_nft_data(cells)
        IN  IF collected.ok
               THEN /\ group_input_nft_data' = collected.data
                    /\ Continue("collect_output")
               ELSE /\ Finish(collected.err)
                    /\ UNCHANGED group_input_nft_data
    /\ UNCHANGED << codec_vars, family, script_args, input_lock_hashes, owner_mode,
                    group_output_nft_data, output_type_hashes, output_nft_indexes, seed_cell_outpoint,
                    index, token_logic_code_hashes_execute,
                    token_logic_code_hashes_validate, validated, invoked, cell_deps,
                    overflow_wraps >>

CollectGroupInput == CollectGroupInputFrom(InputPayloads(family), MaxGroupCells)

(***************************************************************************)
(* main, line 470: collect_nft_data(Source::GroupOutput).                  *)
(***************************************************************************)
CollectGroupOutput ==
    /\ pc = "collect_output"
    /\ \E cells \in SeqsUpTo(OutputPayloads(family),
                             Min(MaxTxOutputs, MaxGroupCells - Len(group_input_nft_data))) :
        LET collected == collect_nft_data(cells)
        IN  IF collected.ok
               THEN /\ group_output_nft_data' = collected.data
                    /\ Continue("locate_outputs")
               ELSE /\ Finish(collected.err)
                    /\ UNCHANGED group_output_nft_data
    /\ UNCHANGED << codec_vars, family, script_args, input_lock_hashes, owner_mode,
                    group_input_nft_data, output_type_hashes, output_nft_indexes, seed_cell_outpoint,
                    index, token_logic_code_hashes_execute,
                    token_logic_code_hashes_validate, validated, invoked, cell_deps,
                    overflow_wraps >>

(***************************************************************************)
(* main, lines 473-487: the indexes of the outputs carrying this script,   *)
(* the count check and the seed outpoint.  The group outputs of a type     *)
(* script are the outputs carrying it; run as a lock script the group has  *)
(* no outputs, whatever the transaction's outputs carry.                   *)
(***************************************************************************)
\* LocateOutputs without the count check of lines 480-483.
LocateOutputsWithoutCountCheck ==
    /\ pc = "locate_outputs"
    /\ \E layout \in TxOutputLayouts :
        LET indexes == collect_nft_indexes(SCRIPT_HASH, layout)
        IN  /\ Len(indexes) = Len(group_output_nft_data) \/ Len(group_output_nft_data) = 0
            /\ output_type_hashes' = layout
            /\ output_nft_indexes' = indexes
            /\ Continue("run")
    /\ seed_cell_outpoint' = SEED_OUTPOINT
    /\ UNCHANGED << codec_vars, family, script_args, input_lock_hashes, owner_mode,
                    group_input_nft_data, group_output_nft_data, index,
                    token_logic_code_hashes_execute, token_logic_code_hashes_validate,
                    validated, invoked, cell_deps, overflow_wraps >>

LocateOutputs ==
    /\ pc = "locate_outputs"
    /\ \E layout \in TxOutputLayouts :
        LET indexes == collect_nft_indexes(SCRIPT_HASH, layout)
        IN  /\ Len(indexes) = Len(group_output_nft_data) \/ Len(group_output_nft_data) = 0
            /\ output_type_hashes' = layout
            /\ output_nft_indexes' = indexes
            /\ IF Len(group_output_nft_data) # Len(indexes)
                  THEN Finish("UnexpectedCellMismatch")
                  ELSE Continue("run")
    /\ seed_cell_outpoint' = SEED_OUTPOINT
    /\ UNCHANGED << codec_vars, family, script_args, input_lock_hashes, owner_mode,
                    group_input_nft_data, group_output_nft_data, index,
                    token_logic_code_hashes_execute, token_logic_code_hashes_validate,
                    validated, invoked, cell_deps, overflow_wraps >>

\* The group output the loop at line 494 is at.
AtOutput == pc = "run" /\ index < Len(group_output_nft_data)
\* CurrentOutput taking the group outputs from the last to the first.
CurrentOutputFromTheEnd == group_output_nft_data[Len(group_output_nft_data) - index]

CurrentOutput == group_output_nft_data[index + 1]

\* main, line 503: the quantity check fails.
quantity_exceeded(input_nft_quantity, output_nft_quantity) ==
    output_nft_quantity > input_nft_quantity

\* dispatch_set with the owner mode left out of line 514.
dispatch_set_without_owner_mode(nft_data, owner, modifications) ==
    IF is_none(nft_data.token_logic) THEN "none"
    ELSE IF unwrap(nft_data.token_logic) = CODE_HASH_NULL THEN "none"
    ELSE IF modifications = 0 THEN "validate"
    ELSE "execute"

\* main, lines 509-522: the set a transfer output's token logic goes to.
dispatch_set(nft_data, owner, modifications) ==
    IF is_none(nft_data.token_logic) THEN "none"
    ELSE IF unwrap(nft_data.token_logic) = CODE_HASH_NULL THEN "none"
    ELSE IF owner \/ modifications = 0 THEN "validate"
    ELSE "execute"

(***************************************************************************)
(* main, lines 497-524: one pass of the loop over an output whose instance *)
(* id is among the group inputs (transfer, update).  An overflowing        *)
(* `quantity +=` panics in a build with overflow checks and wraps in one   *)
(* without; a run that has seen a sum wrap is of the second kind.          *)
(***************************************************************************)
ClassifyTransfer ==
    /\ AtOutput
    /\ CurrentOutput.instance_id \in group_input_instance_ids
    /\ LET output_nft_data == CurrentOutput
           quantities == collect_nft_quantities(output_nft_data, group_input_nft_data,
                                                group_output_nft_data, owner_mode)
           overflow == quantities.input.overflow \/ quantities.output.overflow
           set == dispatch_set(output_nft_data, owner_mode,
                      count_nft_data_modifications(output_nft_data, group_input_nft_data))
       IN  \E panics \in BOOLEAN :
            /\ panics => overflow /\ ~overflow_wraps
            /\ overflow_wraps' = (overflow_wraps \/ (overflow /\ ~panics))
            /\ IF panics
                  THEN /\ Finish("Panic")
                       /\ UNCHANGED << index, token_logic_code_hashes_execute,
                                       token_logic_code_hashes_validate >>
               ELSE IF quantity_exceeded(quantities.input.value, quantities.output.value)
                  THEN /\ Finish("InvalidQuantity")
                       /\ UNCHANGED << index, token_logic_code_hashes_execute,
                                       token_logic_code_hashes_validate >>
               ELSE /\ token_logic_code_hashes_validate' =
                          IF set = "validate"
                              THEN token_logic_code_hashes_validate
                                       \cup { unwrap(output_nft_data.token_logic) }
                              ELSE token_logic_code_hashes_validate
                    /\ token_logic_code_hashes_execute' =
                          IF set = "execute"
                              THEN token_logic_code_hashes_execute
                                       \cup { unwrap(output_nft_data.token_logic) }
                              ELSE token_logic_code_hashes_execute
                    /\ index' = index + 1
                    /\ Continue("run")
    /\ UNCHANGED << codec_vars, family, script_args, input_lock_hashes, owner_mode,
                    group_input_nft_data, group_output_nft_data, output_type_hashes, output_nft_indexes,
                    seed_cell_outpoint, validated, invoked, cell_deps >>

\* generation_error without the owner mode check of lines 529-532.
generation_error_without_owner_check(owner, nft_data, instance_id) ==
    IF nft_data.instance_id # instance_id THEN "InvalidInstanceId"
    ELSE ""

\* generation_error without the instance id check of lines 538-541.
generation_error_without_id_check(owner, nft_data, instance_id) ==
    IF ~owner THEN "UnauthorizedOperation"
    ELSE ""

\* main, lines 529-541: the checks of a generated output ("" when it passes).
generation_error(owner, nft_data, instance_id) ==
    IF ~owner THEN "UnauthorizedOperation"
    ELSE IF nft_data.instance_id # instance_id THEN "InvalidInstanceId"
    ELSE ""

(***************************************************************************)
(* main, lines 525-547: one pass of the loop over an output whose instance *)
(* id is not among the group inputs (generation).                          *)
(***************************************************************************)
ClassifyGenerate ==
    /\ AtOutput
    /\ CurrentOutput.instance_id \notin group_input_instance_ids
    /\ LET output_nft_data == CurrentOutput
           error == generation_error(owner_mode, output_nft_data,
                        calculate_instance_id(seed_cell_outpoint,
                                              output_nft_indexes[index + 1]))
       IN  IF error # ""
              THEN /\ Finish(error)
                   /\ UNCHANGED << index, cell_deps >>
           ELSE IF is_none(output_nft_data.token_logic)
              THEN /\ index' = index + 1
                   /\ Continue("run")
                   /\ UNCHANGED cell_deps
           ELSE \E dep \in CellDepStates :
                   LET token_logic == unwrap(output_nft_data.token_logic)
                       checked == validate_token_logic(token_logic, dep)
                   IN  /\ Loads(token_logic, dep)
                       /\ cell_deps' = IF validate_loads(token_logic)
                                          THEN Loaded(token_logic, dep) ELSE cell_deps
                       /\ IF checked.ok
                             THEN index' = index + 1 /\ Continue("run")
                             ELSE Finish(checked.err) /\ UNCHANGED index
    /\ UNCHANGED << codec_vars, family, script_args, input_lock_hashes, owner_mode,
                    group_input_nft_data, group_output_nft_data, output_type_hashes, output_nft_indexes,
                    seed_cell_outpoint, token_logic_code_hashes_execute,
                    token_logic_code_hashes_validate, validated, invoked,
                    overflow_wraps >>

\* Classified holding from the first pass of the loop on.
ClassifiedBeforeTheEnd == pc = "run" /\ index >= Min(1, Len(group_output_nft_data))

\* The loop over the outputs is over.
Classified == pc = "run" /\ index = Len(group_output_nft_data)
invoked_hashes == { invoked[i].hash : i \in 1..Len(invoked) }
\* validate_pending with the token logic hashes of the group inputs added to
\* the validate set.
validate_pending_with_input_hashes ==
    (token_logic_code_hashes_validate
        \cup { unwrap(group_input_nft_data[i].token_logic) :
                 i \in { k \in 1..Len(group_input_nft_data) :
                           /\ is_some(group_input_nft_data[k].token_logic)
                           /\ unwrap(group_input_nft_data[k].token_logic)
                                 # CODE_HASH_NULL } })
    \ validated

\* validate_pending with the loop of lines 557-560 left out.
validate_pending_skipped == {}

validate_pending == token_logic_code_hashes_validate \ validated
\* execute_pending with the branch of lines 550-554 enabled: without owner
\* mode the token logic hashes of the group inputs are executed as well.
execute_pending_with_input_hashes ==
    (token_logic_code_hashes_execute
        \cup (IF owner_mode THEN {}
              ELSE { unwrap(group_input_nft_data[i].token_logic) :
                       i \in { k \in 1..Len(group_input_nft_data) :
                                 /\ is_some(group_input_nft_data[k].token_logic)
                                 /\ unwrap(group_input_nft_data[k].token_logic)
                                       # CODE_HASH_NULL } }))
    \ invoked_hashes

execute_pending == token_logic_code_hashes_execute \ invoked_hashes

(***************************************************************************)
(* main, lines 557-560: one pass of the loop over the validate set.        *)
(***************************************************************************)
ValidateTokenLogic ==
    /\ Classified
    /\ validate_pending # {}
    /\ LET token_logic_code_hash == BTreeFirst(validate_pending)
       IN  \E dep \in CellDepStates :
            LET checked == validate_token_logic(token_logic_code_hash, dep)
            IN  /\ Loads(token_logic_code_hash, dep)
                /\ cell_deps' = IF validate_loads(token_logic_code_hash)
                                   THEN Loaded(token_logic_code_hash, dep) ELSE cell_deps
                /\ IF checked.ok
                      THEN /\ validated' = validated \cup { token_logic_code_hash }
                           /\ Continue("run")
                      ELSE /\ Finish(checked.err)
                           /\ UNCHANGED validated
    /\ UNCHANGED << codec_vars, family, script_args, input_lock_hashes, owner_mode,
                    group_input_nft_data, group_output_nft_data, output_type_hashes, output_nft_indexes,
                    seed_cell_outpoint, index, token_logic_code_hashes_execute,
                    token_logic_code_hashes_validate, invoked, overflow_wraps >>

(***************************************************************************)
(* main, lines 563-566: one pass of the loop over the execute set.         *)
(***************************************************************************)
ExecuteTokenLogic ==
    /\ Classified
    /\ validate_pending = {}
    /\ execute_pending # {}
    /\ LET token_logic_code_hash == BTreeFirst(execute_pending)
       IN  \E dep \in CellDepStates, return_code \in TokenLogicReturnCodes :
            LET executed == execute_token_logic(token_logic_code_hash, dep, return_code)
            IN  /\ Loads(token_logic_code_hash, dep)
                /\ cell_deps' = Loaded(token_logic_code_hash, dep)
                /\ invoked' = IF dep = "loadable"
                                 THEN Append(invoked, [hash |-> token_logic_code_hash,
                                                       return_code |-> return_code])
                                 ELSE invoked
                /\ IF executed.ok THEN Continue("run") ELSE Finish(executed.err)
    /\ UNCHANGED << codec_vars, family, script_args, input_lock_hashes, owner_mode,
                    group_input_nft_data, group_output_nft_data, output_type_hashes, output_nft_indexes,
                    seed_cell_outpoint, index, token_logic_code_hashes_execute,
                    token_logic_code_hashes_validate, validated, overflow_wraps >>

(***************************************************************************)
(* main, line 568: Ok(()).                                                 *)
(***************************************************************************)
Return ==
    /\ Classified
    /\ validate_pending = {}
    /\ execute_pending = {}
    /\ Finish("Ok")
    /\ UNCHANGED << codec_vars, family, script_args, input_lock_hashes, owner_mode,
                    group_input_nft_data, group_output_nft_data, output_type_hashes, output_nft_indexes,
                    seed_cell_outpoint, index, token_logic_code_hashes_execute,
                    token_logic_code_hashes_validate, validated, invoked, cell_deps,
                    overflow_wraps >>

Next ==
    \/ LoadScript
    \/ CollectGroupInput
    \/ CollectGroupOutput
    \/ LocateOutputs
    \/ ClassifyTransfer
    \/ ClassifyGenerate
    \/ ValidateTokenLogic
    \/ ExecuteTokenLogic
    \/ Return

Spec == Init /\ [][Next]_vars

(***************************************************************************)
(* The owner mode specification: main up to the collection of the group   *)
(* inputs, over script args shorter than, equal to and longer than a lock *)
(* hash, and over every sequence of up to MaxTxInputs input lock hashes.  *)
(* The lock hashes are those of all the inputs of the transaction         *)
(* (Source::Input); the cells of the group are collected afterwards.      *)
(***************************************************************************)
MaxTxInputs == 3

LOCK_THIRD == Fill(LOCK_HASH_LEN, 83)

OwnerModeArgsChoices ==
    { Fill(ARGS_LEN - 1, 81),
      LOCK_GOVERNANCE,
      LOCK_GOVERNANCE \o << 9 >>,
      LOCK_OTHER \o LOCK_GOVERNANCE,
      Fill(ARGS_LEN - 1, 81) \o << 82 >> }

OwnerModeLockHashChoices ==
    SeqsUpTo({ LOCK_GOVERNANCE, LOCK_OTHER, LOCK_THIRD }, MaxTxInputs) \ { << >> }

\* Group inputs of the owner mode specification: none, or one bare cell.
OwnerModeInputPayloads == { ID_X }

LoadScriptAny == LoadScriptWith(OwnerModeArgsChoices, OwnerModeLockHashChoices)

CollectGroupInputBare == CollectGroupInputFrom(OwnerModeInputPayloads, 1)

NextOwnerMode ==
    \/ LoadScriptAny
    \/ CollectGroupInputBare

SpecOwnerMode == Init /\ [][NextOwnerMode]_vars

(***************************************************************************)
(* The payload codec on its own: parse_nft_data and validate_nft_data      *)
(* applied to one cell data, as collect_nft_data applies them to each cell *)
(* (main.rs 244-248).  The cell data is either a payload of any length up  *)
(* to MaxPayloadLen, or the serialization, as the tests build it, of a     *)
(* record that validate_nft_data accepts.                                  *)
(***************************************************************************)
\* Longest payload: a record with every field and the longest custom.
MaxPayloadLen == 82

MaxCustomLen == MaxPayloadLen - (INSTANCE_ID_LEN + QUANTITY_LEN + TOKEN_LOGIC_LEN)

\* Custom data of n bytes.
CustomOfLen(n) == [i \in 1..n |-> 64 + i]

CodecQuantities == { 0, 1, 258 }

\* Full payloads, and every prefix of them.
PayloadTemplates ==
    { ID_X \o to_le_bytes(q, QUANTITY_LEN) \o t \o CustomOfLen(MaxCustomLen) :
        q \in CodecQuantities, t \in { CODE_HASH_NULL, TOKEN_LOGIC_1 } }

CodecPayloads ==
    { SubSeq(t, 1, len) : t \in PayloadTemplates, len \in 0..MaxPayloadLen }

\* Records with any combination of present fields, well formed or not.
CodecRecords ==
    { NftData(x[1], x[2], x[3], x[4]) :
        x \in { ID_X, Fill(INSTANCE_ID_LEN - 1, 1) }
              \X ({ None } \cup { Some(q) : q \in CodecQuantities })
              \X { None, Some(CODE_HASH_NULL), Some(TOKEN_LOGIC_1),
                   Some(Fill(TOKEN_LOGIC_LEN - 1, 161)) }
              \X ({ None } \cup { Some(CustomOfLen(n)) : n \in 0..MaxCustomLen }) }

InitCodec ==
    /\ RunIdle
    /\ family = "quantity"
    /\ parsed = NotRun
    /\ verdict = NotRun
    /\ \/ /\ pc = "record"
          /\ record \in { Some(r) : r \in CodecRecords }
          /\ cell_data = << >>
       \/ /\ pc = "payload"
          /\ record = None
          /\ cell_data \in CodecPayloads

\* validate_nft_data on the record to serialize.
ValidateRecord ==
    /\ pc = "record"
    /\ verdict' = validate_nft_data(unwrap(record))
    /\ pc' = IF verdict'.ok THEN "serialize" ELSE "codec_done"
    /\ UNCHANGED << cell_data, record, parsed, family, script_args, input_lock_hashes,
                    owner_mode, group_input_nft_data, group_output_nft_data,
                    output_type_hashes, output_nft_indexes, seed_cell_outpoint, index,
                    token_logic_code_hashes_execute, token_logic_code_hashes_validate,
                    validated, invoked, cell_deps, overflow_wraps, result, exit_code >>

\* create_output_nft_cell (tests.rs 204-219): the cell data of the record.
SerializeRecord ==
    /\ pc = "serialize"
    /\ cell_data' = serialize(unwrap(record))
    /\ pc' = "payload"
    /\ UNCHANGED << record, parsed, verdict, family, script_args, input_lock_hashes,
                    owner_mode, group_input_nft_data, group_output_nft_data,
                    output_type_hashes, output_nft_indexes, seed_cell_outpoint, index,
                    token_logic_code_hashes_execute, token_logic_code_hashes_validate,
                    validated, invoked, cell_deps, overflow_wraps, result, exit_code >>

\* collect_nft_data, line 246: parse_nft_data(&cell_data)?.
ParseCell ==
    /\ pc = "payload"
    /\ parsed' = parse_nft_data(cell_data)
    /\ pc' = IF parsed'.ok THEN "validate" ELSE "codec_done"
    /\ UNCHANGED << cell_data, record, verdict, family, script_args, input_lock_hashes,
                    owner_mode, group_input_nft_data, group_output_nft_data,
                    output_type_hashes, output_nft_indexes, seed_cell_outpoint, index,
                    token_logic_code_hashes_execute, token_logic_code_hashes_validate,
                    validated, invoked, cell_deps, overflow_wraps, result, exit_code >>

\* collect_nft_data, line 247: validate_nft_data(&nft_data)?.
ValidateCell ==
    /\ pc = "validate"
    /\ verdict' = validate_nft_data(parsed.data)
    /\ pc' = "codec_done"
    /\ UNCHANGED << cell_data, record, parsed, family, script_args, input_lock_hashes,
                    owner_mode, group_input_nft_data, group_output_nft_data,
                    output_type_hashes, output_nft_indexes, seed_cell_outpoint, index,
                    token_logic_code_hashes_execute, token_logic_code_hashes_validate,
                    validated, invoked, cell_deps, overflow_wraps, result, exit_code >>

NextCodec ==
    \/ ValidateRecord
    \/ SerializeRecord
    \/ ParseCell
    \/ ValidateCell

SpecCodec == InitCodec /\ [][NextCodec]_vars

(***************************************************************************)
(* Vocabulary of the properties.                                           *)
(***************************************************************************)

\* The run is over.
Exited == pc = "exit"
Accepted == pc = "exit" /\ result = "Ok"

\* The errors main returns before the loop over the outputs (lines 453-484).
PreLoopErrors ==
    { "InvalidArgsLen", "InvalidInstanceIdLength", "InvalidQuantityLength",
      "InvalidTokenLogicLength", "InvalidStructure", "UnexpectedCellMismatch" }

\* The run got to the loop over the group outputs (line 494).
LoopEntered == pc = "run" \/ (pc = "exit" /\ result \notin PreLoopErrors)

\* The sum, in the integers, of the resolved quantities of the records with
\* the instance id; with the resolved token logic as well.
RECURSIVE SumQuantity(_, _)
SumQuantity(nft_datas, instance_id) ==
    IF nft_datas = << >> THEN 0
    ELSE (IF Head(nft_datas).instance_id = instance_id
             THEN NftDataResolved(Head(nft_datas)).quantity ELSE 0)
         + SumQuantity(Tail(nft_datas), instance_id)

RECURSIVE SumQuantityOf(_, _, _)
SumQuantityOf(nft_datas, instance_id, token_logic) ==
    IF nft_datas = << >> THEN 0
    ELSE (IF /\ Head(nft_datas).instance_id = instance_id
             /\ NftDataResolved(Head(nft_datas)).token_logic = token_logic
             THEN NftDataResolved(Head(nft_datas)).quantity ELSE 0)
         + SumQuantityOf(Tail(nft_datas), instance_id, token_logic)

ResolvedTokenLogic(nft_data) == NftDataResolved(nft_data).token_logic

\* Every record of the group, inputs and outputs, has the instance id and
\* the resolved token logic of the first group input.
OneInstanceOneLogic ==
    /\ group_input_nft_data # << >>
    /\ group_output_nft_data # << >>
    /\ \A i \in 1..Len(group_input_nft_data) :
        /\ group_input_nft_data[i].instance_id = group_input_nft_data[1].instance_id
        /\ ResolvedTokenLogic(group_input_nft_data[i])
              = ResolvedTokenLogic(group_input_nft_data[1])
    /\ \A j \in 1..Len(group_output_nft_data) :
        /\ group_output_nft_data[j].instance_id = group_input_nft_data[1].instance_id
        /\ ResolvedTokenLogic(group_output_nft_data[j])
              = ResolvedTokenLogic(group_input_nft_data[1])

(***************************************************************************)
(* C1.  Conservation on accept: in every accepted run, in owner mode or    *)
(* not, for every instance id X of a group input, the resolved quantities  *)
(* of the group outputs with id X sum to at most the sum of the resolved   *)
(* quantities of the group inputs with id X.                               *)
(***************************************************************************)
C1_ConservationOnAccept ==
    Accepted =>
        \A instance_id \in group_input_instance_ids :
            SumQuantity(group_output_nft_data, instance_id)
                <= SumQuantity(group_input_nft_data, instance_id)

(***************************************************************************)
(* C2.  Conservation boundary: in a run that got to the loop, in either    *)
(* owner mode, whose records all have one instance id and one resolved     *)
(* token logic, outputs that sum to exactly the input sum never fail the   *)
(* quantity check (and the run is accepted when the token logic is null),  *)
(* and outputs that sum to the input sum plus one fail with                *)
(* InvalidQuantity.                                                        *)
(***************************************************************************)
C2_ConservationBoundary ==
    (Exited /\ LoopEntered /\ OneInstanceOneLogic) =>
        LET instance_id == group_input_nft_data[1].instance_id
            input_sum == SumQuantity(group_input_nft_data, instance_id)
            output_sum == SumQuantity(group_output_nft_data, instance_id)
        IN  /\ output_sum = input_sum =>
                /\ result \notin { "InvalidQuantity", "Panic" }
                      \/ (result = "Panic" /\ invoked # << >>)
                /\ ResolvedTokenLogic(group_input_nft_data[1]) = CODE_HASH_NULL
                      => result = "Ok"
            /\ output_sum = input_sum + 1 => result = "InvalidQuantity"

\* The group output the run stopped at, when it stopped inside the loop.
StoppedAtOutput ==
    Exited /\ LoopEntered /\ index < Len(group_output_nft_data)

IsGeneration(nft_data) == nft_data.instance_id \notin group_input_instance_ids

\* The index, among all the outputs of the transaction, of the j-th output
\* carrying this script, and the instance id derived for it.
OutputPosition(j) ==
    CHOOSE k \in 0..(Len(output_type_hashes) - 1) :
        /\ output_type_hashes[k + 1] = Some(SCRIPT_HASH)
        /\ Cardinality({ m \in 1..k : output_type_hashes[m] = Some(SCRIPT_HASH) }) = j - 1

DerivedId(j) == calculate_instance_id(seed_cell_outpoint, OutputPosition(j))

C4_AuthorizedGenerationChecksId ==
    (LoopEntered /\ owner_mode) =>
        /\ \A j \in 1..index :
              IsGeneration(group_output_nft_data[j])
                  => group_output_nft_data[j].instance_id = DerivedId(j)
        /\ (StoppedAtOutput /\ IsGeneration(CurrentOutput)) =>
              IF CurrentOutput.instance_id # DerivedId(index + 1)
                 THEN result = "InvalidInstanceId"
                 ELSE /\ result \in { "MissingTokenLogicCellDep",
                                      "MissingTokenLogicFunction" }
                      /\ ResolvedTokenLogic(CurrentOutput) # CODE_HASH_NULL
        /\ (/\ Exited
            /\ group_output_nft_data # << >>
            /\ \A j \in 1..Len(group_output_nft_data) :
                  /\ IsGeneration(group_output_nft_data[j])
                  /\ group_output_nft_data[j].instance_id = DerivedId(j)
                  /\ is_none(group_output_nft_data[j].token_logic))
              => result = "Ok"

\* An accepted owner-mode run that generated two outputs, one of quantity 0.
C4_Witness ==
    /\ Accepted /\ owner_mode
    /\ Len(group_output_nft_data) = 2
    /\ \A j \in 1..2 : IsGeneration(group_output_nft_data[j])
    /\ \E j \in 1..2 : group_output_nft_data[j].quantity = Some(0)

(***************************************************************************)
(* C5.  Plugin rejection status is propagated verbatim: whenever a         *)
(* token_logic function that was called returned a non-zero status s, the  *)
(* run is over and its exit status is s.                                   *)
(***************************************************************************)
C5_PluginStatusPropagated ==
    \A i \in 1..Len(invoked) :
        invoked[i].return_code # 0
            => (Exited /\ exit_code = invoked[i].return_code)

\* A group output the loop has passed that is a transfer or update carrying
\* a token logic that is present and not null.
Dispatched(j) ==
    /\ j \in 1..index
    /\ ~IsGeneration(group_output_nft_data[j])
    /\ is_some(group_output_nft_data[j].token_logic)
    /\ unwrap(group_output_nft_data[j].token_logic) # CODE_HASH_NULL

\* No group input with the instance id and resolved token logic of the j-th
\* group output has a custom different from that output's.
CustomUnchanged(j) ==
    LET R == NftDataResolved(group_output_nft_data[j])
    IN  ~ \E i \in 1..Len(group_input_nft_data) :
            LET I == NftDataResolved(group_input_nft_data[i])
            IN  /\ I.instance_id = R.instance_id
                /\ I.token_logic = R.token_logic
                /\ I.custom # R.custom

(***************************************************************************)
(* C6.  Dispatch classification: the validate-only set holds exactly the   *)
(* token logic hashes (present, not null) of the transfer outputs passed   *)
(* so far for which owner_mode is true or no group input of the same       *)
(* instance id and resolved token logic has a different custom; the        *)
(* execute set holds exactly those of the other such outputs.  Only hashes *)
(* of the execute set are called, so in owner mode, and in a non-owner run *)
(* whose outputs leave custom unchanged, no token_logic function is called *)
(* and none can reject the run.                                            *)
(***************************************************************************)
C6_DispatchClassification ==
    LoopEntered =>
        /\ token_logic_code_hashes_validate =
              { unwrap(group_output_nft_data[j].token_logic) :
                  j \in { k \in 1..index :
                            Dispatched(k) /\ (owner_mode \/ CustomUnchanged(k)) } }
        /\ token_logic_code_hashes_execute =
              { unwrap(group_output_nft_data[j].token_logic) :
                  j \in { k \in 1..index :
                            Dispatched(k) /\ ~(owner_mode \/ CustomUnchanged(k)) } }
        /\ \A i \in 1..Len(invoked) :
              invoked[i].hash \in token_logic_code_hashes_execute
        /\ (owner_mode \/ \A j \in 1..Len(group_output_nft_data) : CustomUnchanged(j))
              => (invoked = << >> /\ token_logic_code_hashes_execute = {})

\* An accepted non-owner run with a hash in the validate-only set and a hash
\* in the execute set.
C6_Witness ==
    /\ Accepted /\ ~owner_mode
    /\ token_logic_code_hashes_validate # {}
    /\ token_logic_code_hashes_execute # {}
    /\ invoked # << >>

\* Every token logic module the run looked for is there with its function.
ModulesPresent == \A h \in DOMAIN cell_deps : cell_deps[h] = "loadable"

(***************************************************************************)
(* C7.  Owner-mode partitioning: an owner-mode run whose group outputs all *)
(* belong to instances of the group inputs, one of them with a resolved    *)
(* token logic different from that of an input of its instance, is         *)
(* accepted when, for every instance id, the output quantities sum to at   *)
(* most the input quantities and every module it looks for is present.     *)
(***************************************************************************)
C7_OwnerModePartitioning ==
    (/\ Exited /\ LoopEntered /\ owner_mode
     /\ \A j \in 1..Len(group_output_nft_data) : ~IsGeneration(group_output_nft_data[j])
     /\ \E j \in 1..Len(group_output_nft_data), i \in 1..Len(group_input_nft_data) :
           /\ group_output_nft_data[j].instance_id = group_input_nft_data[i].instance_id
           /\ ResolvedTokenLogic(group_output_nft_data[j])
                 # ResolvedTokenLogic(group_input_nft_data[i])
     /\ \A instance_id \in group_input_instance_ids :
           SumQuantity(group_output_nft_data, instance_id)
               <= SumQuantity(group_input_nft_data, instance_id)
     /\ ModulesPresent)
        => result = "Ok"

(***************************************************************************)
(* C8.  Non-owner partitioning: when owner_mode is false, a group output   *)
(* of an existing instance whose (instance id, resolved token logic)       *)
(* partition sums to more over the group outputs than over the group       *)
(* inputs is never passed by the loop, and a run that stops at it fails    *)
(* with InvalidQuantity, whatever the totals per instance id.              *)
(***************************************************************************)
C8_NonOwnerPartitioning ==
    (LoopEntered /\ ~owner_mode) =>
        \A j \in 1..Len(group_output_nft_data) :
            LET R == NftDataResolved(group_output_nft_data[j])
            IN  (/\ ~IsGeneration(group_output_nft_data[j])
                 /\ SumQuantityOf(group_output_nft_data, R.instance_id, R.token_logic)
                       > SumQuantityOf(group_input_nft_data, R.instance_id, R.token_logic))
                    => /\ j > index
                       /\ (StoppedAtOutput /\ j = index + 1) => result = "InvalidQuantity"

(***************************************************************************)
(* C9.  Changing token logic needs authority: a non-owner run with one     *)
(* group input and one group output of the same instance, the output with  *)
(* a resolved token logic different from the input's and a quantity not    *)
(* above the input's, fails with UnauthorizedOperation.                    *)
(***************************************************************************)
C9_ChangingTokenLogicNeedsAuthority ==
    (/\ Exited /\ LoopEntered /\ ~owner_mode
     /\ Len(group_input_nft_data) = 1
     /\ Len(group_output_nft_data) = 1
     /\ group_output_nft_data[1].instance_id = group_input_nft_data[1].instance_id
     /\ ResolvedTokenLogic(group_output_nft_data[1])
           # ResolvedTokenLogic(group_input_nft_data[1])
     /\ NftDataResolved(group_output_nft_data[1]).quantity
           <= NftDataResolved(group_input_nft_data[1]).quantity)
        => result = "UnauthorizedOperation"

(***************************************************************************)
(* C10 as claimed.  Position used for identity derivation: in owner mode,  *)
(* a generated output the loop has passed carries the id derived from the  *)
(* seed outpoint and the output's ordinal among the outputs bearing this   *)
(* script (0 for the first), also when another output precedes it.         *)
(***************************************************************************)
C10_OrdinalPosition ==
    (LoopEntered /\ owner_mode) =>
        \A j \in 1..index :
            IsGeneration(group_output_nft_data[j])
                => group_output_nft_data[j].instance_id
                       = calculate_instance_id(seed_cell_outpoint, j - 1)

(***************************************************************************)
(* C10 amended.  The position passed to calculate_instance_id is the       *)
(* output's index among all the outputs of the transaction: a generated    *)
(* output the loop has passed carries the id derived from that index, and  *)
(* when an output without this script precedes it, the id derived from its *)
(* ordinal among the matching outputs fails with InvalidInstanceId.        *)
(***************************************************************************)
C10_RawIndexPosition ==
    (LoopEntered /\ owner_mode) =>
        /\ \A j \in 1..index :
              IsGeneration(group_output_nft_data[j])
                  => group_output_nft_data[j].instance_id
                         = calculate_instance_id(seed_cell_outpoint, OutputPosition(j))
        /\ (/\ StoppedAtOutput
            /\ IsGeneration(CurrentOutput)
            /\ OutputPosition(index + 1) # index
            /\ CurrentOutput.instance_id
                   = calculate_instance_id(seed_cell_outpoint, index))
              => result = "InvalidInstanceId"

\* An accepted owner-mode run generating the output at index 1 of the
\* transaction, the first one bearing this script.
C10_Witness ==
    /\ Accepted /\ owner_mode
    /\ Len(group_output_nft_data) = 1
    /\ IsGeneration(group_output_nft_data[1])
    /\ OutputPosition(1) = 1

\* A group output the loop has passed that was generated with a token logic
\* that is not null.
GeneratedWithLogic(j) ==
    /\ j \in 1..index
    /\ IsGeneration(group_output_nft_data[j])
    /\ ResolvedTokenLogic(group_output_nft_data[j]) # CODE_HASH_NULL

(***************************************************************************)
(* C11.  Generation never executes logic: the module of a generated output *)
(* with a token logic that is not null has been found with its function    *)
(* when the loop passes the output, a run that has passed a generated      *)
(* output puts nothing in the execute set and calls no token_logic         *)
(* function, and an owner-mode run whose outputs are all generated with    *)
(* the derived id is accepted when the modules are present, whatever their *)
(* functions would return.                                                 *)
(***************************************************************************)
C11_GenerationNeverExecutes ==
    LoopEntered =>
        /\ \A j \in 1..index :
              GeneratedWithLogic(j) =>
                  LET h == unwrap(group_output_nft_data[j].token_logic)
                  IN  h \in DOMAIN cell_deps /\ cell_deps[h] = "loadable"
        /\ (\E j \in 1..index : IsGeneration(group_output_nft_data[j]))
              => (invoked = << >> /\ token_logic_code_hashes_execute = {})
        /\ (/\ Exited
            /\ group_output_nft_data # << >>
            /\ \A j \in 1..Len(group_output_nft_data) :
                  /\ IsGeneration(group_output_nft_data[j])
                  /\ group_output_nft_data[j].instance_id = DerivedId(j)
            /\ owner_mode
            /\ ModulesPresent)
              => (result = "Ok" /\ invoked = << >>)

\* An accepted owner-mode run that generated an output with a token logic.
C11_Witness ==
    /\ Accepted /\ owner_mode
    /\ \E j \in 1..Len(group_output_nft_data) : GeneratedWithLogic(j)
    /\ invoked = << >>

(***************************************************************************)
(* C12.  Burn is always accepted: a run with one or more group inputs, no  *)
(* group output and no transaction output bearing the script is accepted,  *)
(* in owner mode and without, whatever the inputs' quantity, token logic   *)
(* and custom, and it loads no module and calls no token_logic function.   *)
(***************************************************************************)
C12_BurnAlwaysAccepted ==
    (/\ LoopEntered
     /\ group_input_nft_data # << >>
     /\ group_output_nft_data = << >>)
        => /\ cell_deps = NoCellDeps
           /\ invoked = << >>
           /\ validated = {}
           /\ Exited => result = "Ok"

\* An accepted run without owner mode that burnt an input carrying a token
\* logic and a custom.
C12_Witness ==
    /\ Accepted /\ ~owner_mode
    /\ group_output_nft_data = << >>
    /\ \E i \in 1..Len(group_input_nft_data) :
          /\ ResolvedTokenLogic(group_input_nft_data[i]) # CODE_HASH_NULL
          /\ is_some(group_input_nft_data[i].custom)

(***************************************************************************)
(* C13.  parse_nft_data fails exactly on the in-between lengths: for cell  *)
(* data of length L it returns InvalidInstanceIdLength if L < 32,          *)
(* InvalidQuantityLength if 32 < L < 48, InvalidTokenLogicLength if        *)
(* 48 < L < 80, and a record for L = 32, L = 48 and every L >= 80.         *)
(***************************************************************************)
C13_ParseLengths ==
    parsed # NotRun =>
        LET L == Len(cell_data)
        IN  /\ L < 32 => (~parsed.ok /\ parsed.err = "InvalidInstanceIdLength")
            /\ (32 < L /\ L < 48) => (~parsed.ok /\ parsed.err = "InvalidQuantityLength")
            /\ (48 < L /\ L < 80) => (~parsed.ok /\ parsed.err = "InvalidTokenLogicLength")
            /\ (L = 32 \/ L = 48 \/ L >= 80) => parsed.ok

\* Cell data one byte longer than id and quantity: the token logic is short.
C13_Witness ==
    /\ Len(cell_data) = 49
    /\ parsed.err = "InvalidTokenLogicLength"

(***************************************************************************)
(* C14 as claimed.  Round trip: for every record that validate_nft_data    *)
(* accepts, one with a present but empty custom included, parse_nft_data   *)
(* of its serialization returns the record, field by field.                *)
(***************************************************************************)
C14_RoundTrip ==
    (is_some(record) /\ parsed # NotRun) => parsed = Ok(unwrap(record))

(***************************************************************************)
(* C14 amended.  Round trip: for every record that validate_nft_data       *)
(* accepts and whose custom, when present, is not empty, parse_nft_data of *)
(* its serialization returns the record, field by field; a record with a   *)
(* present but empty custom comes back with the custom absent.             *)
(***************************************************************************)
C14_RoundTripNonEmptyCustom ==
    (is_some(record) /\ parsed # NotRun) =>
        LET r == unwrap(record)
        IN  IF r.custom = Some(<< >>)
               THEN parsed = Ok([r EXCEPT !.custom = None])
               ELSE parsed = Ok(r)

\* A record with every field, a quantity of two bytes, back from its
\* serialization.
C14_Witness ==
    /\ is_some(record)
    /\ unwrap(record).quantity = Some(258)
    /\ is_some(unwrap(record).custom)
    /\ unwrap(record).custom # Some(<< >>)
    /\ parsed = Ok(unwrap(record))

(***************************************************************************)
(* C15.  Module presence check.  The null hash is never resolved and never  *)
(* fails the check.  For a non-null hash the run ends with                  *)
(* MissingTokenLogicCellDep exactly when a code hash resolved to no module, *)
(* with MissingTokenLogicFunction exactly when one resolved to a module     *)
(* without the token_logic entry point, and a hash passes the check only    *)
(* when its module with the entry point is there.  The check itself calls   *)
(* nothing: only hashes of the execute set are ever invoked.                *)
(***************************************************************************)
C15_ModulePresenceCheck ==
    /\ CODE_HASH_NULL \notin DOMAIN cell_deps
    /\ \A j \in 1..Len(group_output_nft_data) :
          (j <= index /\ IsGeneration(group_output_nft_data[j])
                /\ is_some(group_output_nft_data[j].token_logic)
                /\ unwrap(group_output_nft_data[j].token_logic) # CODE_HASH_NULL)
             => /\ unwrap(group_output_nft_data[j].token_logic) \in DOMAIN cell_deps
                /\ cell_deps[unwrap(group_output_nft_data[j].token_logic)] = "loadable"
    /\ \A h \in validated : h \in DOMAIN cell_deps /\ cell_deps[h] = "loadable"
    /\ (Exited /\ result = "MissingTokenLogicCellDep")
          <=> (\E h \in DOMAIN cell_deps : cell_deps[h] = "missing")
    /\ (Exited /\ result = "MissingTokenLogicFunction")
          <=> (\E h \in DOMAIN cell_deps : cell_deps[h] = "no_function")
    /\ invoked_hashes \subseteq token_logic_code_hashes_execute
    /\ validate_pending # {} => invoked = << >>

\* A generation with the null hash went through while another output's
\* module was found to lack the entry point; nothing was invoked.
C15_Witness ==
    /\ Exited
    /\ result = "MissingTokenLogicFunction"
    /\ invoked = << >>
    /\ \E j \in 1..Len(group_output_nft_data) :
          /\ j <= index
          /\ IsGeneration(group_output_nft_data[j])
          /\ group_output_nft_data[j].token_logic = Some(CODE_HASH_NULL)

(***************************************************************************)
(* C16.  Once the script is loaded, owner_mode is true exactly when some   *)
(* input of the transaction, group input or not, has a lock hash whose 32  *)
(* bytes are, one by one, the first 32 bytes of the script args; the bytes *)
(* of the args after the 32nd play no part.                                *)
(***************************************************************************)
C16_OwnerMode ==
    pc \in { "collect_input", "collect_output" }
        => (owner_mode <=>
              \E i \in 1..Len(input_lock_hashes) :
                  /\ Len(input_lock_hashes[i]) = 32
                  /\ \A b \in 1..32 : script_args[b] = input_lock_hashes[i][b])

\* Owner mode with args longer than a lock hash, the matching input not the
\* first of the transaction, and no input in the group at all.
C16_Witness ==
    /\ pc = "collect_output"
    /\ owner_mode
    /\ group_input_nft_data = << >>
    /\ Len(script_args) > 32
    /\ Len(input_lock_hashes) > 1
    /\ input_lock_hashes[1] # SubSeq(script_args, 1, 32)

(***************************************************************************)
(* C17.  Exit status contract.  A run that has exited has status 0 exactly *)
(* when main returned Ok; a run that ended with an error of the taxonomy   *)
(* has a positive status that fits the signed byte, and that status is the *)
(* status of no other error kind.                                          *)
(***************************************************************************)
C17_ExitStatusContract ==
    Exited =>
        /\ (exit_code = 0) <=> (result = "Ok")
        /\ result \in ErrorKinds \cup { "Ok", "Panic" }
        /\ result \in ErrorKinds =>
              /\ exit_code > 0
              /\ exit_code < 128
              /\ \A other \in ErrorKinds \ { result } :
                    program_entry(other) # exit_code

\* A run rejected after classification, by the presence check of a module.
C17_Witness ==
    /\ Exited
    /\ result = "MissingTokenLogicCellDep"
    /\ exit_code > 0
    /\ index = Len(group_output_nft_data)
    /\ index > 0

(***************************************************************************)
(* The exit codes the tests expect (tests.rs 36-61, `impl From<Error> for  *)
(* i8`), for the error kinds the contract has.                             *)
(***************************************************************************)
TestErrorCode(err) ==
    CASE err = "IndexOutOfBound" -> 1
      [] err = "ItemMissing" -> 2
      [] err = "LengthNotEnough" -> 3
      [] err = "Encoding" -> 4
      [] err = "InvalidArgsLen" -> 10
      [] err = "InvalidInstanceId" -> 11
      [] err = "InvalidInstanceIdLength" -> 12
      [] err = "InvalidQuantity" -> 13
      [] err = "InvalidQuantityLength" -> 14
      [] err = "InvalidStructure" -> 15
      [] err = "InvalidTokenLogicLength" -> 16
      [] err = "MissingTokenLogicCellDep" -> 17
      [] err = "MissingTokenLogicFunction" -> 18
      [] err = "UnauthorizedOperation" -> 19
      [] err = "UnexpectedCellMismatch" -> 20

TestErrorKinds == ErrorKinds \ { "InvalidTokenLogicCellDep" }

(***************************************************************************)
(* C18.  Exit code numbering.  A run that ended with an error kind of the  *)
(* tests' table exits with the code the table gives that kind.             *)
(***************************************************************************)
C18_TestTableExitCode ==
    (Exited /\ result \in TestErrorKinds) => exit_code = TestErrorCode(result)

(***************************************************************************)
(* C19.  Overflow is a hard failure.  In a group whose records all carry   *)
(* one instance id and one resolved token logic (a single partition,       *)
(* however the sums are keyed), with at least one output so that the sums  *)
(* are taken, a run is never accepted when the sum in the integers of the  *)
(* input quantities or of the output quantities is more than the           *)
(* accumulator holds.                                                      *)
(***************************************************************************)
C19_OverflowIsHardFailure ==
    (Accepted /\ OneInstanceOneLogic) =>
        /\ SumQuantity(group_input_nft_data, group_input_nft_data[1].instance_id)
              < QuantityModulus
        /\ SumQuantity(group_output_nft_data, group_input_nft_data[1].instance_id)
              < QuantityModulus

\* The quantity sums main compares for the j-th group output, from the sums
\* in the integers: main keys them by the instance id, and by the resolved
\* token logic as well when owner_mode is true (line 501), and the
\* accumulator keeps them modulo its width.
PartitionSum(nft_datas, j) ==
    LET R == NftDataResolved(group_output_nft_data[j])
    IN  IF owner_mode
           THEN SumQuantityOf(nft_datas, R.instance_id, R.token_logic)
           ELSE SumQuantity(nft_datas, R.instance_id)

\* The classification check the j-th group output fails, taken on its own:
\* "" when it fails none.
ClassificationError(j) ==
    IF IsGeneration(group_output_nft_data[j])
       THEN IF ~owner_mode THEN "UnauthorizedOperation"
            ELSE IF group_output_nft_data[j].instance_id # DerivedId(j)
                    THEN "InvalidInstanceId"
            ELSE ""
    ELSE IF PartitionSum(group_output_nft_data, j) % QuantityModulus
               > PartitionSum(group_input_nft_data, j) % QuantityModulus
            THEN "InvalidQuantity"
    ELSE ""

ClassificationErrors == { "InvalidQuantity", "UnauthorizedOperation", "InvalidInstanceId" }

\* Token logic hashes carried by the group outputs 1..n.
OutputHashesUpTo(n) ==
    { unwrap(group_output_nft_data[j].token_logic) :
        j \in { k \in 1..Len(group_output_nft_data) :
                  k <= n /\ is_some(group_output_nft_data[k].token_logic) } }

(***************************************************************************)
(* C20.  First error in output order.  The outputs the loop has passed     *)
(* fail no classification check.  A run that ends with InvalidQuantity,    *)
(* UnauthorizedOperation or InvalidInstanceId ends at the lowest group     *)
(* output that fails a classification check, with that output's error,     *)
(* whatever the later outputs would fail; a run that stops at that output  *)
(* ends with its error (or with the panic of an overflowing sum).  A run   *)
(* that stops inside the loop has called no token_logic function, has run  *)
(* no presence check of the validate set, and has resolved no code hash of *)
(* an output after the one it stopped at.                                  *)
(***************************************************************************)
C20_FirstErrorInOutputOrder ==
    LoopEntered =>
        /\ \A j \in 1..index : ClassificationError(j) = ""
        /\ (Exited /\ result \in ClassificationErrors) =>
              /\ index < Len(group_output_nft_data)
              /\ ClassificationError(index + 1) = result
        /\ (StoppedAtOutput /\ ClassificationError(index + 1) # "") =>
              result \in { ClassificationError(index + 1), "Panic" }
        /\ StoppedAtOutput =>
              /\ result # "Ok"
              /\ invoked = << >>
              /\ validated = {}
              /\ DOMAIN cell_deps \subseteq OutputHashesUpTo(index + 1)

\* The run stopped at the first of two outputs that fail different checks.
C20_Witness ==
    /\ StoppedAtOutput
    /\ index = 0
    /\ Len(group_output_nft_data) = 2
    /\ ClassificationError(1) = result
    /\ ClassificationError(1) # ""
    /\ ClassificationError(2) # ""
    /\ ClassificationError(2) # ClassificationError(1)

\* Number of outputs of the transaction whose type script is this script.
MatchingOutputPositions ==
    Cardinality({ k \in 1..Len(output_type_hashes) :
                    output_type_hashes[k] = Some(SCRIPT_HASH) })

(***************************************************************************)
(* C21.  Count precondition.  Once the outputs are located, the number of  *)
(* group output records differs from the number of outputs carrying this   *)
(* script exactly when the run has failed with UnexpectedCellMismatch; and *)
(* such a run has classified no output, collected no token logic hash,     *)
(* resolved no module and called none.                                     *)
(***************************************************************************)
C21_CountPrecondition ==
    /\ pc \in { "run", "exit" } =>
          ((Len(group_output_nft_data) # MatchingOutputPositions)
              <=> (Exited /\ result = "UnexpectedCellMismatch"))
    /\ (Exited /\ result = "UnexpectedCellMismatch") =>
          /\ index = 0
          /\ token_logic_code_hashes_validate = {}
          /\ token_logic_code_hashes_execute = {}
          /\ validated = {}
          /\ cell_deps = NoCellDeps
          /\ invoked = << >>

\* The counts differ in a run with group inputs: the script runs as the lock
\* of its inputs while outputs carry it as their type.
C21_Witness ==
    /\ Exited
    /\ result = "UnexpectedCellMismatch"
    /\ group_input_nft_data # << >>
    /\ MatchingOutputPositions = 2
    /\ Len(group_output_nft_data) = 0

(***************************************************************************)
(* C22.  The argument length check comes first.  Once the script is        *)
(* loaded, its args are shorter than 32 bytes exactly when the run has     *)
(* failed with InvalidArgsLen; such a run has read no lock hash, has not   *)
(* computed owner_mode and has parsed no cell of the group, so whatever    *)
(* the group's payloads hold plays no part.                                *)
(***************************************************************************)
C22_ArgsLengthFirst ==
    /\ pc # "start" =>
          ((Len(script_args) < 32) <=> (Exited /\ result = "InvalidArgsLen"))
    /\ (Exited /\ result = "InvalidArgsLen") =>
          /\ exit_code = 100
          /\ input_lock_hashes = << >>
          /\ ~owner_mode
          /\ group_input_nft_data = << >>
          /\ group_output_nft_data = << >>
          /\ output_type_hashes = << >>
          /\ index = 0
          /\ cell_deps = NoCellDeps
          /\ invoked = << >>

C22_Witness ==
    /\ Exited
    /\ result = "InvalidArgsLen"
    /\ Len(script_args) = 31
    /\ input_lock_hashes = << >>

\* The record the verdict of validate_nft_data is about: the parsed one once
\* a cell has been parsed and validated, else the record validated directly.
VerdictSubject ==
    IF pc = "codec_done" /\ parsed.ok THEN Some(parsed.data)
    ELSE IF is_some(record) /\ verdict # NotRun THEN record
    ELSE None

(***************************************************************************)
(* C23.  For a record with an instance id of 32 bytes and a token logic,   *)
(* when present, of 32 bytes, validate fails, and then with                *)
(* InvalidStructure, exactly when the token logic is present without the   *)
(* quantity, or the custom is present without the quantity or without the  *)
(* token logic; every other such record is accepted.                       *)
(***************************************************************************)
C23_InvalidStructure ==
    is_some(VerdictSubject) =>
        LET r == VerdictSubject[1]
            malformed ==
                \/ Len(r.token_logic) = 1 /\ Len(r.quantity) = 0
                \/ Len(r.custom) = 1 /\ (Len(r.quantity) = 0 \/ Len(r.token_logic) = 0)
        IN  (Len(r.instance_id) = 32
             /\ (Len(r.token_logic) = 1 => Len(r.token_logic[1]) = 32))
               => /\ verdict.ok <=> ~malformed
                  /\ ~verdict.ok => verdict.err = "InvalidStructure"

\* A record with quantity and custom but no token logic was rejected.
C23_Witness ==
    /\ is_some(record)
    /\ pc = "codec_done"
    /\ Len(record[1].instance_id) = 32
    /\ is_some(record[1].quantity)
    /\ is_none(record[1].token_logic)
    /\ is_some(record[1].custom)
    /\ verdict.err = "InvalidStructure"

MissingModuleErrors == { "MissingTokenLogicCellDep", "MissingTokenLogicFunction" }

\* Token logic hashes, not null, of the generation outputs among the group
\* outputs 1..n.
GenerationHashesUpTo(n) ==
    { unwrap(group_output_nft_data[j].token_logic) :
        j \in { k \in 1..Len(group_output_nft_data) :
                  /\ k <= n
                  /\ IsGeneration(group_output_nft_data[k])
                  /\ is_some(group_output_nft_data[k].token_logic)
                  /\ unwrap(group_output_nft_data[k].token_logic) # CODE_HASH_NULL } }

(***************************************************************************)
(* C24, as stated.  Plugin work starts only after classification: no       *)
(* module is resolved before every group output is classified, so a run in *)
(* which some group output, at any position, fails a classification check  *)
(* never ends with MissingTokenLogicCellDep or MissingTokenLogicFunction.  *)
(***************************************************************************)
C24_PluginWorkAfterClassification ==
    (Exited /\ LoopEntered
        /\ \E j \in 1..Len(group_output_nft_data) : ClassificationError(j) # "")
      => result \notin MissingModuleErrors

(***************************************************************************)
(* C24, amended.  The presence check of a generation output's token logic  *)
(* is made inside the loop, when that output is classified; the validate   *)
(* set and the execute set are processed only after every group output is  *)
(* classified.  So while an output is still to be classified nothing has   *)
(* been called, no hash of the validate set has been checked, and the only *)
(* modules resolved are those of the generation outputs reached so far; a  *)
(* run that stops inside the loop with a missing-module error stops at a   *)
(* generation output that passed its own classification checks, and no     *)
(* earlier output fails a classification check.                            *)
(***************************************************************************)
C24_GenerationCheckedInLoop ==
    LoopEntered =>
        /\ index < Len(group_output_nft_data) =>
              /\ invoked = << >>
              /\ validated = {}
              /\ DOMAIN cell_deps \subseteq GenerationHashesUpTo(index + 1)
        /\ (StoppedAtOutput /\ result \in MissingModuleErrors) =>
              /\ IsGeneration(group_output_nft_data[index + 1])
              /\ ClassificationError(index + 1) = ""
              /\ \A j \in 1..index : ClassificationError(j) = ""
              /\ \E h \in GenerationHashesUpTo(index + 1) \ GenerationHashesUpTo(index) :
                    cell_deps[h] \in { "missing", "no_function" }
        /\ (Exited /\ result \in MissingModuleErrors /\ index = Len(group_output_nft_data))
              => \A j \in 1..Len(group_output_nft_data) : ClassificationError(j) = ""

\* A generation output whose module is missing comes before an output that
\* fails a classification check, and the missing module is what is reported.
C24_Witness ==
    /\ StoppedAtOutput
    /\ result = "MissingTokenLogicCellDep"
    /\ index = 0
    /\ Len(group_output_nft_data) = 2
    /\ IsGeneration(group_output_nft_data[1])
    /\ ClassificationError(2) # ""

(***************************************************************************)
(* C25.  Validate before execute.  When a token_logic function has been    *)
(* called, every group output is classified and every hash of the validate *)
(* set has passed its presence check, its module being there with the      *)
(* entry point.  When a hash of the validate set resolved to no module or  *)
(* to a module without the entry point, the run has failed with the        *)
(* matching error and no function, of the execute set or other, was ever   *)
(* called.                                                                 *)
(***************************************************************************)
C25_ValidateBeforeExecute ==
    /\ invoked # << >> =>
          /\ index = Len(group_output_nft_data)
          /\ validated = token_logic_code_hashes_validate
          /\ \A h \in token_logic_code_hashes_validate :
                h \in DOMAIN cell_deps /\ cell_deps[h] = "loadable"
    /\ \A h \in token_logic_code_hashes_validate :
          (h \in DOMAIN cell_deps /\ cell_deps[h] # "loadable") =>
              /\ Exited
              /\ result = (IF cell_deps[h] = "missing" THEN "MissingTokenLogicCellDep"
                           ELSE "MissingTokenLogicFunction")
              /\ invoked = << >>

\* A hash of the validate set lacks its module while the execute set holds
\* another hash: the run failed and nothing was called.
C25_Witness ==
    /\ Exited
    /\ index = Len(group_output_nft_data)
    /\ result = "MissingTokenLogicCellDep"
    /\ \E h \in token_logic_code_hashes_validate :
          h \in DOMAIN cell_deps /\ cell_deps[h] = "missing"
    /\ token_logic_code_hashes_execute \ token_logic_code_hashes_validate # {}
    /\ invoked = << >>

\* The token_logic function of the code hash was called and returned 0.
InvokedWithSuccess(token_logic_code_hash) ==
    \E k \in 1..Len(invoked) :
        invoked[k].hash = token_logic_code_hash /\ invoked[k].return_code = 0

(***************************************************************************)
(* C26.  Custom data guarded by a token logic cannot be changed behind its *)
(* back: in an accepted run without owner mode, for every group input with *)
(* a token logic H that is not null and every group output of the same     *)
(* instance id whose custom differs from the input's, the token_logic      *)
(* function of H was called and returned 0, whatever token logic the       *)
(* output carries.                                                         *)
(***************************************************************************)
C26_CustomGuardedByLogic ==
    (Accepted /\ ~owner_mode) =>
        \A i \in 1..Len(group_input_nft_data), j \in 1..Len(group_output_nft_data) :
            LET I == NftDataResolved(group_input_nft_data[i])
                R == NftDataResolved(group_output_nft_data[j])
            IN  (/\ I.token_logic # CODE_HASH_NULL
                 /\ R.instance_id = I.instance_id
                 /\ R.custom # I.custom)
                   => InvokedWithSuccess(I.token_logic)

(***************************************************************************)
(* main, lines 494-547: what one pass of the loop decides for an output,   *)
(* given the group and the index of the output in the transaction: the     *)
(* error it returns ("" for none), whether a sum overflowed, the set the   *)
(* token logic hash goes to with that hash, and, for a generation, what    *)
(* the presence check gives for each thing loading the hash can find.      *)
(***************************************************************************)
classify_output(nft_data, output_index, group_input, group_output, owner) ==
    IF nft_data.instance_id \in collect_unique_instance_ids(group_input)
       THEN LET quantities == collect_nft_quantities(nft_data, group_input,
                                                     group_output, owner)
                set == dispatch_set(nft_data, owner,
                           count_nft_data_modifications(nft_data, group_input))
            IN  [error |-> IF quantity_exceeded(quantities.input.value,
                                                quantities.output.value)
                              THEN "InvalidQuantity" ELSE "",
                 overflow |-> quantities.input.overflow \/ quantities.output.overflow,
                 set |-> set,
                 hash |-> IF set = "none" THEN << >> ELSE unwrap(nft_data.token_logic),
                 presence |-> [dep \in CellDepStates |-> ""]]
       ELSE LET error == generation_error(owner, nft_data,
                             calculate_instance_id(seed_cell_outpoint, output_index))
            IN  [error |-> error,
                 overflow |-> FALSE,
                 set |-> "none",
                 hash |-> << >>,
                 presence |->
                    [dep \in CellDepStates |->
                        IF error = "" /\ is_some(nft_data.token_logic)
                           THEN validate_token_logic(unwrap(nft_data.token_logic), dep).err
                           ELSE ""]]

\* The record with each absent field replaced by its default, and the group
\* with every record so replaced.
Defaulted(nft_data) ==
    NftData(nft_data.instance_id,
            IF nft_data.quantity = << >> THEN << 1 >> ELSE nft_data.quantity,
            IF nft_data.token_logic = << >> THEN << [b \in 1..32 |-> 0] >>
                                           ELSE nft_data.token_logic,
            IF nft_data.custom = << >> THEN << << >> >> ELSE nft_data.custom)

DefaultedAll(nft_datas) == [i \in 1..Len(nft_datas) |-> Defaulted(nft_datas[i])]

(***************************************************************************)
(* C27.  Defaults are applied uniformly.  Whatever the group holds, the    *)
(* quantity sums and the count of custom modifications of every group      *)
(* output, and with them everything the loop decides for it (error,        *)
(* overflow, set and hash dispatched, presence check), are the same when   *)
(* only that output, only the inputs, only the outputs, or every record    *)
(* has its absent fields replaced by quantity 1, the null hash and the     *)
(* empty custom; this is checked on entry to the loop, the group being the *)
(* same for the rest of the run.  The run follows those decisions: the     *)
(* outputs passed have no error, and a run stopped at an output with an    *)
(* error reports it.                                                       *)
(***************************************************************************)
C27_DefaultsUniform ==
    LoopEntered =>
        \A j \in 1..Len(group_output_nft_data) :
            LET nft_data == group_output_nft_data[j]
                decided == classify_output(nft_data, output_nft_indexes[j],
                               group_input_nft_data, group_output_nft_data, owner_mode)
                gi_default == DefaultedAll(group_input_nft_data)
                go_default == DefaultedAll(group_output_nft_data)
            IN  /\ (pc = "run" /\ index = 0) =>
                      /\ \A gi \in { group_input_nft_data, gi_default },
                            go \in { group_output_nft_data, go_default },
                            r \in { nft_data, Defaulted(nft_data) } :
                              classify_output(r, output_nft_indexes[j], gi, go, owner_mode)
                                  = decided
                      /\ \A consider_token_logic \in BOOLEAN :
                            collect_nft_quantities(Defaulted(nft_data), gi_default,
                                                   go_default, consider_token_logic)
                              = collect_nft_quantities(nft_data, group_input_nft_data,
                                    group_output_nft_data, consider_token_logic)
                      /\ count_nft_data_modifications(Defaulted(nft_data), gi_default)
                            = count_nft_data_modifications(nft_data, group_input_nft_data)
                /\ j <= index => decided.error = ""
                /\ (StoppedAtOutput /\ j = index + 1 /\ decided.error # "")
                      => result \in { decided.error, "Panic" }

\* An accepted run in which a bare input (no quantity, no token logic) is
\* matched by an output that spells out the defaults: quantity 1, null hash.
C27_Witness ==
    /\ Accepted
    /\ \E i \in 1..Len(group_input_nft_data), j \in 1..Len(group_output_nft_data) :
          /\ group_input_nft_data[i].quantity = << >>
          /\ group_input_nft_data[i].token_logic = << >>
          /\ group_output_nft_data[j].instance_id = group_input_nft_data[i].instance_id
          /\ group_output_nft_data[j].quantity = << 1 >>
          /\ group_output_nft_data[j].token_logic = << CODE_HASH_NULL >>

\* Token logic hashes carried by the group inputs, the null hash apart.
InputHashes ==
    { unwrap(group_input_nft_data[i].token_logic) :
        i \in { k \in 1..Len(group_input_nft_data) :
                  is_some(group_input_nft_data[k].token_logic) } } \ { CODE_HASH_NULL }

(***************************************************************************)
(* C28.  Only output-side token logic hashes are dispatched.  With or      *)
(* without owner mode, a hash carried by a group input and by no group     *)
(* output is in neither set, is never resolved, never presence-checked and *)
(* never called; so no run fails on the module of such a hash: a run that  *)
(* ends with a missing-module error or a panic after a call does so on a   *)
(* hash some group output carries.                                         *)
(***************************************************************************)
C28_OnlyOutputHashesDispatched ==
    LET input_only == InputHashes \ OutputHashesUpTo(Len(group_output_nft_data))
    IN  /\ \A h \in input_only :
              /\ h \notin token_logic_code_hashes_validate
              /\ h \notin token_logic_code_hashes_execute
              /\ h \notin DOMAIN cell_deps
              /\ h \notin validated
              /\ h \notin invoked_hashes
        /\ (Exited /\ result \in MissingModuleErrors) =>
              \E h \in OutputHashesUpTo(Len(group_output_nft_data)) :
                  h \in DOMAIN cell_deps /\ cell_deps[h] # "loadable"
        /\ invoked_hashes \subseteq OutputHashesUpTo(Len(group_output_nft_data))

\* Without owner mode, an input's token logic is dropped by the output and
\* the run is accepted with nothing resolved.
C28_Witness ==
    /\ Accepted
    /\ ~owner_mode
    /\ group_output_nft_data # << >>
    /\ InputHashes \ OutputHashesUpTo(Len(group_output_nft_data)) # {}
    /\ cell_deps = NoCellDeps

(***************************************************************************)
(* C29.  No forged identities.  In an accepted run every group output      *)
(* carries the instance id of some group input, or the run is in owner     *)
(* mode and the id is the one derived from the seed outpoint and the       *)
(* output's position in the transaction; without owner mode every output   *)
(* id is an input id.  The same holds, in any run, of the outputs the loop *)
(* has passed.                                                             *)
(***************************************************************************)
C29_NoForgedIdentities ==
    LoopEntered =>
        \A j \in 1..Len(group_output_nft_data) :
            (j <= index \/ Accepted) =>
                LET id == group_output_nft_data[j].instance_id
                    from_input == \E i \in 1..Len(group_input_nft_data) :
                                      group_input_nft_data[i].instance_id = id
                IN  /\ from_input \/ (owner_mode /\ id = DerivedId(j))
                    /\ ~owner_mode => from_input

\* An accepted owner-mode run with an output that keeps an input's id and an
\* output, not the first of the transaction, generated with its derived id.
C29_Witness ==
    /\ Accepted
    /\ owner_mode
    /\ \E j, k \in 1..Len(group_output_nft_data) :
          /\ group_output_nft_data[j].instance_id \in group_input_instance_ids
          /\ group_output_nft_data[k].instance_id \notin group_input_instance_ids
          /\ OutputPosition(k) > 0

(***************************************************************************)
(* C30.  Every record parse returns satisfies validate: for a payload of   *)
(* any length, once the cell is parsed and validated, either parse failed  *)
(* with one of its three length errors or validate accepted the parsed     *)
(* record; InvalidStructure and validate's InvalidInstanceIdLength never   *)
(* come out of a record built from payload bytes.                          *)
(***************************************************************************)
C30_ParsedRecordsAreValid ==
    /\ (pc = "codec_done" /\ parsed.ok) => verdict.ok
    /\ (pc = "codec_done" /\ parsed # NotRun /\ ~parsed.ok) =>
          /\ parsed.err \in { "InvalidInstanceIdLength", "InvalidQuantityLength",
                              "InvalidTokenLogicLength" }
          /\ Len(cell_data) \notin { 32, 48 }
          /\ Len(cell_data) < 80
    /\ parsed # NotRun => verdict.err # "InvalidStructure"

\* A payload with every field, not the serialization of a record, was
\* parsed and its record accepted.
C30_Witness ==
    /\ pc = "codec_done"
    /\ record = << >>
    /\ Len(cell_data) > 80
    /\ parsed.ok
    /\ Len(parsed.data.custom) = 1
    /\ verdict.ok

====
